---- MODULE Spec2Model ----
(***************************************************************************)
(* A model of pymispgalaxies/api.py: Galaxy, ClusterValueMeta,             *)
(* ClusterValue, Cluster and the Clusters registry.                        *)
(*                                                                         *)
(* Representation of Python values:                                        *)
(*   - a str is a sequence of one-character strings, so that lower(),      *)
(*     substring tests and the machinetag regular expression are computed  *)
(*     character by character;                                             *)
(*   - a JSON object (a raw record) is a function from key names to        *)
(*     values; a key that is absent is absent from the DOMAIN;             *)
(*   - an object is a function from attribute names to values; an          *)
(*     attribute that holds None is absent from the DOMAIN, and a          *)
(*     ClusterValue carries its identity in the attribute "oid";           *)
(*   - a dict whose iteration order matters (Cluster.cluster_values,       *)
(*     Clusters.clusters) is a sequence of [k, v] entries in insertion     *)
(*     order; assigning to an existing key keeps the entry's position;     *)
(*   - a call's outcome is a record whose field exc names the exception    *)
(*     class raised, or "none".                                            *)
(***************************************************************************)
EXTENDS Integers, Sequences, FiniteSets, TLC

VARIABLES cluster, clusters, ent, ret, nextOid

vars == <<cluster, clusters, ent, ret, nextOid>>

(***************************************************************************)
(* Bounds of the model.                                                    *)
(***************************************************************************)
MaxInitValues == 1
MaxObjects == 3
MaxClusters == 2
MaxLoadValues == 2
MaxDumpValues == 2
MaxRelated == 2
MaxAssigns == 1
MaxMerges == 1
MaxRecords == 2

(***************************************************************************)
(* Strings.                                                                *)
(***************************************************************************)
LowerChar(c) ==
  CASE c = "A" -> "a"
    [] c = "B" -> "b"
    [] OTHER -> c

Lower(s) == [i \in 1..Len(s) |-> LowerChar(s[i])]

SeqsUpTo(S, n) == UNION {[1..k -> S] : k \in 0..n}


\* Python's `a in b` on two strings
IsSubstring(a, b) ==
  \E i \in 0..(Len(b) - Len(a)) : \A j \in 1..Len(a) : b[i + j] = a[j]

\* Python truthiness of a str, list or dict attribute that may be None
Truthy(o, k) == k \in DOMAIN o /\ o[k] # <<>>

Restrict(f, S) == [k \in (DOMAIN f) \cap S |-> f[k]]

Without(f, S) == [k \in (DOMAIN f) \ S |-> f[k]]

(***************************************************************************)
(* Insertion-ordered dict.                                                 *)
(***************************************************************************)
DictKeys(d) == {d[i].k : i \in 1..Len(d)}

DictHas(d, key) == key \in DictKeys(d)

DictGet(d, key) == d[CHOOSE i \in 1..Len(d) : d[i].k = key].v

\* an assignment that always adds an entry
DictSet_add(d, key, val) == Append(d, [k |-> key, v |-> val])

\* d[key] = val
DictSet(d, key, val) ==
  IF DictHas(d, key)
    THEN [i \in 1..Len(d) |-> IF d[i].k = key THEN [k |-> key, v |-> val] ELSE d[i]]
    ELSE Append(d, [k |-> key, v |-> val])

DictValues(d) == [i \in 1..Len(d) |-> d[i].v]

(***************************************************************************)
(* Exceptions.                                                             *)
(***************************************************************************)
NoExc == "none"
KeyError == "KeyError"
PyMISPGalaxiesError == "PyMISPGalaxiesError"
UnableToRevertMachinetag == "UnableToRevertMachinetag"

\* the two messages PyMISPGalaxiesError is raised with
MsgNoValue == "Invalid cluster (no value)"
MsgDuplicate == "Duplicate value"

(***************************************************************************)
(* ClusterValueMeta                                                        *)
(***************************************************************************)
RecognizedMetaKeys ==
  {"type", "complexity", "effectiveness", "country", "possible_issues",
   "colour", "motive", "impact", "refs", "synonyms", "derivated_from",
   "status", "date", "encryption", "extensions", "ransomnotes"}

\* m.pop(key, None) for each recognized key; what is left of m is kept
ClusterValueMeta__init__(m) ==
  Restrict(m, RecognizedMetaKeys) @@
  ("additional_properties" :> Without(m, RecognizedMetaKeys))

\* the raw dict m after the constructor has popped the recognized keys
ClusterValueMeta__popped(m) == Without(m, RecognizedMetaKeys)

ClusterValueMeta_to_dict(self) ==
  [k \in {a \in RecognizedMetaKeys : Truthy(self, a)} |-> self[k]] @@
  self["additional_properties"]

(***************************************************************************)
(* ClusterValue                                                            *)
(***************************************************************************)
\* __init_meta: None for a missing or empty meta
ClusterValue__init_meta(v) ==
  IF Truthy(v, "meta") THEN ("meta" :> ClusterValueMeta__init__(v["meta"])) ELSE <<>>

ClusterValue_searchable(o) ==
  {o["value"]}
  \cup (IF Truthy(o, "uuid") THEN {o["uuid"]} ELSE {})
  \cup (IF "meta" \in DOMAIN o /\ Truthy(o["meta"], "synonyms")
          THEN {o["meta"]["synonyms"][i] : i \in 1..Len(o["meta"]["synonyms"])}
          ELSE {})

\* a constructor that never reads the related list of the record
ClusterValue__fields_unrelated(v, oid) ==
  ("oid" :> oid) @@
  Restrict(v, {"uuid", "value", "description"}) @@
  ClusterValue__init_meta(v) @@
  ("related" :> <<>>)

ClusterValue__fields(v, oid) ==
  ("oid" :> oid) @@
  Restrict(v, {"uuid", "value", "description"}) @@
  ClusterValue__init_meta(v) @@
  ("related" :> IF "related" \in DOMAIN v THEN v["related"] ELSE <<>>)

\* the raw record v after construction: its meta has lost the recognized keys
ClusterValue__raw(v) ==
  IF Truthy(v, "meta")
    THEN ("meta" :> ClusterValueMeta__popped(v["meta"])) @@ v
    ELSE v

ClusterValue__init__(v, oid) ==
  IF "value" \notin DOMAIN v
    THEN [exc |-> KeyError, msg |-> "value"]
  ELSE IF v["value"] = <<>>
    THEN [exc |-> PyMISPGalaxiesError, msg |-> MsgNoValue]
  ELSE LET o == ClusterValue__fields(v, oid)
       IN [exc |-> NoExc,
           obj |-> ("searchable" :> ClusterValue_searchable(o)) @@ o,
           raw |-> ClusterValue__raw(v)]

ClusterValue_to_dict(self) ==
  ("value" :> self["value"]) @@
  [k \in {a \in {"uuid", "description", "related"} : Truthy(self, a)} |-> self[k]] @@
  (IF "meta" \in DOMAIN self
     THEN ("meta" :> ClusterValueMeta_to_dict(self["meta"]))
     ELSE <<>>)

(***************************************************************************)
(* Cluster                                                                 *)
(***************************************************************************)
ClusterRequired ==
  {"name", "type", "source", "authors", "description", "uuid", "version", "category"}

\* a lookup that forgets name.lower()
Cluster_has_exact(self, name) == DictHas(self["cluster_values"], name)

\* Mapping.get(name): __getitem__ looks cluster_values up under name.lower()
Cluster_has(self, name) == DictHas(self["cluster_values"], Lower(name))

Cluster__getitem__(self, name) == DictGet(self["cluster_values"], Lower(name))

\* an append that records the duplicate before it raises
Cluster_append_cv_recorded(self, cv, skip_duplicates) ==
  IF Cluster_has(self, cv["value"]) /\ ~skip_duplicates
    THEN [exc |-> PyMISPGalaxiesError, msg |-> MsgDuplicate,
          self |-> [self EXCEPT !["duplicates"] = Append(@, <<self["name"], cv["value"]>>)]]
    ELSE [exc |-> NoExc,
          self |->
            [self EXCEPT
               !["duplicates"] =
                 IF Cluster_has(self, cv["value"])
                   THEN Append(@, <<self["name"], cv["value"]>>)
                   ELSE @,
               !["cluster_values"] = DictSet(@, Lower(cv["value"]), cv)]]

\* append of an already constructed ClusterValue
Cluster_append_cv(self, cv, skip_duplicates) ==
  IF Cluster_has(self, cv["value"]) /\ ~skip_duplicates
    THEN [exc |-> PyMISPGalaxiesError, msg |-> MsgDuplicate, self |-> self]
    ELSE [exc |-> NoExc,
          self |->
            [self EXCEPT
               !["duplicates"] =
                 IF Cluster_has(self, cv["value"])
                   THEN Append(@, <<self["name"], cv["value"]>>)
                   ELSE @,
               !["cluster_values"] = DictSet(@, Lower(cv["value"]), cv)]]

\* append of a raw record: the ClusterValue is constructed first
Cluster_append(self, v, oid, skip_duplicates) ==
  LET c == ClusterValue__init__(v, oid)
  IN IF c.exc # NoExc
       THEN [exc |-> c.exc, msg |-> c.msg, self |-> self]
       ELSE Cluster_append_cv(self, c.obj, skip_duplicates)

(***************************************************************************)
(* Formatting of machinetags                                               *)
(***************************************************************************)
MispGalaxy == <<"m", "i", "s", "p", "-", "g", "a", "l", "a", "x", "y">>

\* '{}:{}="{}"'.format(namespace, type, value)
FormatTag(namespace, type, value) ==
  namespace \o <<":">> \o type \o <<"=", "\"">> \o value \o <<"\"">>

\* 'misp-galaxy:{}="{}"'.format(self.type, v.value)
MachineTag(type, value) == FormatTag(MispGalaxy, type, value)

\* tags whose middle segment is the name of the cluster
Cluster_machinetags_byname(self) ==
  [i \in 1..Len(self["cluster_values"]) |->
     MachineTag(self["name"], self["cluster_values"][i].v["value"])]

Cluster_machinetags(self) ==
  [i \in 1..Len(self["cluster_values"]) |->
     MachineTag(self["type"], self["cluster_values"][i].v["value"])]

\* the loop of __init__ over cluster['values'], from position i on; a KeyError
\* raised in the loop body is caught by __init__ and ends the loop
RECURSIVE Cluster__load(_, _, _, _)
Cluster__load(self, i, oid, skip_duplicates) ==
  IF i > Len(self["cluster"]["values"])
    THEN [exc |-> NoExc, self |-> self, oid |-> oid]
  ELSE LET c == ClusterValue__init__(self["cluster"]["values"][i], oid)
       IN IF c.exc = KeyError
            THEN [exc |-> NoExc, self |-> self, oid |-> oid]
          ELSE IF c.exc # NoExc
            THEN [exc |-> c.exc, msg |-> c.msg, self |-> self, oid |-> oid]
          ELSE LET mutated == [self EXCEPT !["cluster"]["values"][i] = c.raw]
                   a == Cluster_append_cv(mutated, c.obj, skip_duplicates)
               IN IF a.exc # NoExc
                    THEN [exc |-> a.exc, msg |-> a.msg, self |-> a.self, oid |-> oid + 1]
                    ELSE Cluster__load(a.self, i + 1, oid + 1, skip_duplicates)

Cluster__init__(rec, oid, skip_duplicates) ==
  IF ~(ClusterRequired \subseteq DOMAIN rec)
    THEN [exc |-> KeyError, msg |-> "required", oid |-> oid]
  ELSE LET self == Restrict(rec, ClusterRequired) @@
                   ("cluster" :> rec) @@
                   ("cluster_values" :> <<>>) @@
                   ("duplicates" :> <<>>)
       IN IF "values" \notin DOMAIN rec
            THEN [exc |-> NoExc, self |-> self, oid |-> oid]
            ELSE Cluster__load(self, 1, oid, skip_duplicates)

Cluster_values(self) == DictValues(self["cluster_values"])

\* json.dumps(cluster, cls=EncodeClusters): to_dict, its values and their
\* meta serialized through their own to_dict
Cluster_to_dict(self) ==
  Restrict(self, ClusterRequired) @@
  ("values" :> [i \in 1..Len(self["cluster_values"]) |->
                  ClusterValue_to_dict(self["cluster_values"][i].v)])

\* a search that compares the query as it was typed
Cluster_matches_exact(v, query) ==
  \E s \in v["searchable"] : IsSubstring(query, Lower(s))

\* [s for s in v.searchable if query.lower() in s.lower()]
Cluster_matches(v, query) ==
  \E s \in v["searchable"] : IsSubstring(Lower(query), Lower(s))

RECURSIVE Cluster_search_from(_, _, _, _)
Cluster_search_from(self, query, return_tags, i) ==
  IF i > Len(self["cluster_values"]) THEN <<>>
  ELSE LET v == self["cluster_values"][i].v
       IN (IF Cluster_matches(v, query)
             THEN <<IF return_tags THEN FormatTag(MispGalaxy, self["type"], v["value"])
                                   ELSE v>>
             ELSE <<>>)
          \o Cluster_search_from(self, query, return_tags, i + 1)

Cluster_search(self, query, return_tags) ==
  Cluster_search_from(self, query, return_tags, 1)

\* value.meta and value.meta.additional_properties: the value has a meta
\* whose additional properties are not empty
Cluster_has_additional(v) ==
  "meta" \in DOMAIN v /\ v["meta"]["additional_properties"] # <<>>

\* the condition of the loop of get_by_external_id
Cluster_external_id_is(v, external_id) ==
  /\ Cluster_has_additional(v)
  /\ "external_id" \in DOMAIN v["meta"]["additional_properties"]
  /\ v["meta"]["additional_properties"]["external_id"] = external_id

\* a lookup that returns the last value with the external id
Cluster_get_by_external_id_last(self, external_id) ==
  LET vals == Cluster_values(self)
      hits == {i \in 1..Len(vals) : Cluster_external_id_is(vals[i], external_id)}
  IN IF hits = {}
       THEN [exc |-> KeyError]
       ELSE [exc |-> NoExc, value |-> vals[CHOOSE i \in hits : \A j \in hits : j <= i]]

\* the first value of self.cluster_values.values() that passes the
\* condition is returned; KeyError is raised after the loop
Cluster_get_by_external_id(self, external_id) ==
  LET vals == Cluster_values(self)
      hits == {i \in 1..Len(vals) : Cluster_external_id_is(vals[i], external_id)}
  IN IF hits = {}
       THEN [exc |-> KeyError]
       ELSE [exc |-> NoExc, value |-> vals[CHOOSE i \in hits : \A j \in hits : i <= j]]

(***************************************************************************)
(* Galaxy                                                                  *)
(***************************************************************************)
GalaxyRequired == {"type", "name", "icon", "description", "version", "uuid"}

GalaxyOptional == {"namespace", "kill_chain_order"}

\* self.galaxy is the record handed over, from which pop() removes the two
\* optional keys
Galaxy__init__(rec) ==
  IF ~(GalaxyRequired \subseteq DOMAIN rec)
    THEN [exc |-> KeyError, msg |-> "required"]
    ELSE [exc |-> NoExc,
          self |-> Restrict(rec, GalaxyRequired \cup GalaxyOptional) @@
                   ("galaxy" :> Without(rec, GalaxyOptional))]

Galaxy_to_dict(self) ==
  Restrict(self, GalaxyRequired) @@
  [k \in {a \in GalaxyOptional : Truthy(self, a)} |-> self[k]]

(***************************************************************************)
(* Galaxies                                                                *)
(***************************************************************************)
\* the loop of __init__ over the records, from position i on
RECURSIVE Galaxies__load(_, _, _)
Galaxies__load(self, records, i) ==
  IF i > Len(records)
    THEN [exc |-> NoExc, self |-> self]
  ELSE IF "type" \notin DOMAIN records[i]
    THEN [exc |-> KeyError, msg |-> "type"]
  ELSE LET g == Galaxy__init__(records[i])
       IN IF g.exc # NoExc
            THEN [exc |-> g.exc, msg |-> g.msg]
            ELSE Galaxies__load(DictSet(self, records[i]["type"], g.self),
                                records, i + 1)

\* records is the list handed over, or the list read from the data folder
Galaxies__init__(records) == Galaxies__load(<<>>, records, 1)

\* the records handed to jsonschema.validate, one per galaxy: g.galaxy
Galaxies_validate_with_schema(self) ==
  [i \in 1..Len(self) |-> self[i].v["galaxy"]]

(***************************************************************************)
(* Inputs of the cluster specification.                                    *)
(***************************************************************************)
\* value records that are found through their uuid and their synonyms
SearchableValueRecords ==
  {[value |-> <<"a", "b">>, uuid |-> <<"B", "a">>],
   [value |-> <<"b">>, meta |-> [synonyms |-> << <<"a", "B">>, <<"A">> >>]]}

\* value records: without value, with an empty value, with a value only,
\* and the searchable ones
SimpleValueRecords ==
  {<<>>} \cup {("value" :> s) : s \in {<<>>, <<"a">>, <<"A">>}}
  \cup SearchableValueRecords

Queries == {<<>>, <<"a">>, <<"B">>, <<"a", "b">>, <<"B", "a">>, <<"b", "b">>}

ClusterHeader(type) ==
  [name |-> <<"n">>, type |-> type, source |-> <<"s">>, authors |-> <<>>,
   description |-> <<"d">>, uuid |-> <<"u">>, version |-> <<"1">>,
   category |-> <<"c">>]

SimpleClusterRecords ==
  {ClusterHeader(<<"t">>)} \cup
  {ClusterHeader(<<"t">>) @@ ("values" :> vs) :
     vs \in SeqsUpTo(SimpleValueRecords, MaxInitValues)}

NoRet == [op |-> "none"]

(***************************************************************************)
(* Specification of one Cluster: construction, then appends.               *)
(***************************************************************************)
Init ==
  \E rec \in SimpleClusterRecords, skip \in BOOLEAN :
    LET r == Cluster__init__(rec, 1, skip)
    IN /\ r.exc = NoExc
       /\ cluster = r.self
       /\ nextOid = r.oid
       /\ ret = NoRet
       /\ clusters = <<>>
       /\ ent = <<>>

DoAppend(v, skip) ==
  /\ nextOid <= MaxObjects
  /\ LET r == Cluster_append(cluster, v, nextOid, skip)
     IN /\ cluster' = r.self
        /\ nextOid' = IF r.exc \in {NoExc, PyMISPGalaxiesError} /\ "value" \in DOMAIN v /\ v["value"] # <<>>
                        THEN nextOid + 1 ELSE nextOid
        /\ ret' = [op |-> "append", v |-> v, skip |-> skip, exc |-> r.exc,
                   msg |-> IF r.exc = NoExc THEN "" ELSE r.msg]
  /\ UNCHANGED <<clusters, ent>>

Search(query, return_tags) ==
  /\ ret' = [op |-> "search", query |-> query, return_tags |-> return_tags,
             res |-> Cluster_search(cluster, query, return_tags)]
  /\ UNCHANGED <<cluster, clusters, ent, nextOid>>

Next ==
  \/ \E v \in SimpleValueRecords, skip \in BOOLEAN : DoAppend(v, skip)
  \/ \E query \in Queries, return_tags \in BOOLEAN : Search(query, return_tags)

Spec == Init /\ [][Next]_vars

(***************************************************************************)
(* Parsing of machinetags                                                  *)
(***************************************************************************)
\* position of the first occurrence of character c in s after position from,
\* 0 when there is none
FirstAfter(s, c, from) ==
  IF \E i \in (from + 1)..Len(s) : s[i] = c
    THEN CHOOSE i \in (from + 1)..Len(s) :
           s[i] = c /\ \A j \in (from + 1)..(i - 1) : s[j] # c
    ELSE 0

\* a parse whose second group starts at the beginning of the tag
ParseMachinetag_prefix(tag) ==
  LET colon == FirstAfter(tag, ":", 0)
      eq    == FirstAfter(tag, "=", colon)
      close == FirstAfter(tag, "\"", eq + 1)
  IN IF colon # 0 /\ eq # 0 /\ eq + 1 <= Len(tag) /\ tag[eq + 1] = "\""
        /\ close = Len(tag)
       THEN [match |-> TRUE,
             namespace |-> SubSeq(tag, 1, colon - 1),
             type |-> SubSeq(tag, 1, eq - 1),
             value |-> SubSeq(tag, eq + 2, close - 1)]
       ELSE [match |-> FALSE]

\* re.findall('^([^:]*):([^=]*)="([^"]*)"$', machinetag): the groups of the
\* only possible match, or no match.  $ also matches before a final newline.
ParseMachinetag(tag) ==
  LET colon == FirstAfter(tag, ":", 0)
      eq    == FirstAfter(tag, "=", colon)
      close == FirstAfter(tag, "\"", eq + 1)
  IN IF /\ colon # 0
        /\ eq # 0
        /\ eq + 1 <= Len(tag)
        /\ tag[eq + 1] = "\""
        /\ close # 0
        /\ \/ close = Len(tag)
           \/ close = Len(tag) - 1 /\ tag[Len(tag)] = "\n"
       THEN [match |-> TRUE,
             namespace |-> SubSeq(tag, 1, colon - 1),
             type |-> SubSeq(tag, colon + 1, eq - 1),
             value |-> SubSeq(tag, eq + 2, close - 1)]
       ELSE [match |-> FALSE]

(***************************************************************************)
(* Cluster.get_kill_chain_tactics                                          *)
(***************************************************************************)
ValueError == "ValueError"

\* item.split(':')
RECURSIVE SplitColon(_)
SplitColon(s) ==
  LET c == FirstAfter(s, ":", 0)
  IN IF c = 0
       THEN <<s>>
       ELSE <<SubSeq(s, 1, c - 1)>> \o SplitColon(SubSeq(s, c + 1, Len(s)))

\* ord(c), for the characters of the tactics of the model
Ord(c) ==
  CASE c = ":" -> 58
    [] c = "X" -> 88
    [] c = "p" -> 112
    [] c = "q" -> 113
    [] c = "x" -> 120
    [] c = "y" -> 121

\* a < b for two str: the code points decide at the first difference, and a
\* proper prefix is smaller
StrLess(a, b) ==
  \E i \in 1..Len(b) :
    /\ \A j \in 1..(i - 1) : j <= Len(a) /\ a[j] = b[j]
    /\ i > Len(a) \/ Ord(a[i]) < Ord(b[i])

\* the strings of S in descending order
Sorted_descending(S) ==
  CHOOSE l \in [1..Cardinality(S) -> S] :
    \A i, j \in 1..Cardinality(S) : i < j => StrLess(l[j], l[i])

\* sorted(result[key]), for a list that holds the strings of S once each
Sorted(S) ==
  CHOOSE l \in [1..Cardinality(S) -> S] :
    \A i, j \in 1..Cardinality(S) : i < j => StrLess(l[i], l[j])

\* the set items after the first loop
Cluster_kill_chain_items(self) ==
  UNION {{v["meta"]["additional_properties"]["kill_chain"][i] :
            i \in 1..Len(v["meta"]["additional_properties"]["kill_chain"])} :
         v \in {w \in {self["cluster_values"][k].v : k \in 1..Len(self["cluster_values"])} :
                  Cluster_has_additional(w)
                  /\ Truthy(w["meta"]["additional_properties"], "kill_chain")}}

\* key, value = item.split(':') raises ValueError unless there are two parts
Cluster_get_kill_chain_tactics(self) ==
  LET items == Cluster_kill_chain_items(self)
  IN IF \E item \in items : Len(SplitColon(item)) # 2
       THEN [exc |-> ValueError]
       ELSE [exc |-> NoExc,
             result |->
               [key \in {SplitColon(item)[1] : item \in items} |->
                  Sorted({SplitColon(item)[2] :
                            item \in {x \in items : SplitColon(x)[1] = key}})]]

(***************************************************************************)
(* Specification of one Cluster whose values have a meta: construction,    *)
(* then the lookups that read the additional properties.                   *)
(***************************************************************************)
MaxMetaValues == 2

\* value records: without meta, with an external id and kill chain entries,
\* with recognized meta keys only, with an empty kill chain, and one (under
\* a value that differs from another in letter case only) whose entry has
\* two colons
MetaValueRecords ==
  {[value |-> <<"a">>],
   [value |-> <<"b">>,
    meta |-> [external_id |-> <<"T">>,
              kill_chain |-> << <<"p", ":", "x">>, <<"p", ":", "X">> >>]],
   [value |-> <<"c">>,
    meta |-> [external_id |-> <<"T">>,
              kill_chain |-> << <<"q", ":", "x", "y">>, <<"p", ":", "x">>, <<"p", ":">> >>]],
   [value |-> <<"d">>, meta |-> [synonyms |-> << <<"s">> >>]],
   [value |-> <<"e">>, meta |-> [external_id |-> <<"U">>, kill_chain |-> <<>>]],
   [value |-> <<"B">>, meta |-> [kill_chain |-> << <<"p", ":", "x", ":", "y">> >>]]}

MetaClusterRecords ==
  {ClusterHeader(<<"t">>) @@ ("values" :> vs) :
     vs \in SeqsUpTo(MetaValueRecords, MaxMetaValues)}

ExternalIds == {<<"T">>, <<"U">>, <<"V">>}

InitLookup ==
  \E rec \in MetaClusterRecords, skip \in BOOLEAN :
    LET r == Cluster__init__(rec, 1, skip)
    IN /\ r.exc = NoExc
       /\ cluster = r.self
       /\ nextOid = r.oid
       /\ ret = NoRet
       /\ clusters = <<>>
       /\ ent = <<>>

GetByExternalId(external_id) ==
  /\ ret' = [op |-> "get_by_external_id", external_id |-> external_id,
             res |-> Cluster_get_by_external_id(cluster, external_id)]
  /\ UNCHANGED <<cluster, clusters, ent, nextOid>>

GetKillChainTactics ==
  /\ ret' = [op |-> "get_kill_chain_tactics",
             res |-> Cluster_get_kill_chain_tactics(cluster)]
  /\ UNCHANGED <<cluster, clusters, ent, nextOid>>

NextLookup ==
  \/ \E external_id \in ExternalIds : GetByExternalId(external_id)
  \/ GetKillChainTactics

SpecLookup == InitLookup /\ [][NextLookup]_vars

(***************************************************************************)
(* Clusters                                                                *)
(***************************************************************************)
IndexError == "IndexError"

\* a load that keeps the first cluster of a type
RECURSIVE Clusters__load_first(_, _, _, _, _)
Clusters__load_first(self, records, i, oid, skip_duplicates) ==
  IF i > Len(records)
    THEN [exc |-> NoExc, self |-> self, oid |-> oid]
  ELSE IF "type" \notin DOMAIN records[i]
    THEN [exc |-> KeyError, msg |-> "type", oid |-> oid]
  ELSE LET c == Cluster__init__(records[i], oid, skip_duplicates)
       IN IF c.exc # NoExc
            THEN [exc |-> c.exc, msg |-> c.msg, oid |-> c.oid]
            ELSE Clusters__load_first(
                   IF DictHas(self, records[i]["type"])
                     THEN self
                     ELSE DictSet(self, records[i]["type"], c.self),
                   records, i + 1, c.oid, skip_duplicates)

\* the loop of __init__ over the records, from position i on
RECURSIVE Clusters__load(_, _, _, _, _)
Clusters__load(self, records, i, oid, skip_duplicates) ==
  IF i > Len(records)
    THEN [exc |-> NoExc, self |-> self, oid |-> oid]
  ELSE IF "type" \notin DOMAIN records[i]
    THEN [exc |-> KeyError, msg |-> "type", oid |-> oid]
  ELSE LET c == Cluster__init__(records[i], oid, skip_duplicates)
       IN IF c.exc # NoExc
            THEN [exc |-> c.exc, msg |-> c.msg, oid |-> c.oid]
            ELSE Clusters__load(DictSet(self, records[i]["type"], c.self),
                                records, i + 1, c.oid, skip_duplicates)

\* records is the list handed over, or the list read from the data folder
Clusters__init__(records, oid, skip_duplicates) ==
  Clusters__load(<<>>, records, 1, oid, skip_duplicates)

\* the records handed to jsonschema.validate, one per cluster: c.cluster
Clusters_validate_with_schema(self) ==
  [i \in 1..Len(self) |-> self[i].v["cluster"]]

\* a reversal that accepts the namespace misp-galaxy only
Clusters_revert_try_namespace(self, machinetag) ==
  LET p == ParseMachinetag(machinetag)
  IN IF ~p.match
       THEN [exc |-> IndexError]
     ELSE IF p.namespace # MispGalaxy \/ ~DictHas(self, p.type)
       THEN [exc |-> KeyError]
     ELSE IF ~Cluster_has(DictGet(self, p.type), p.value)
       THEN [exc |-> KeyError]
     ELSE [exc |-> NoExc,
           cluster |-> DictGet(self, p.type),
           value |-> Cluster__getitem__(DictGet(self, p.type), p.value)]

\* the body of the try block of revert_machinetag
Clusters_revert_try(self, machinetag) ==
  LET p == ParseMachinetag(machinetag)
  IN IF ~p.match
       THEN [exc |-> IndexError]
     ELSE IF ~DictHas(self, p.type)
       THEN [exc |-> KeyError]
     ELSE IF ~Cluster_has(DictGet(self, p.type), p.value)
       THEN [exc |-> KeyError]
     ELSE [exc |-> NoExc,
           cluster |-> DictGet(self, p.type),
           value |-> Cluster__getitem__(DictGet(self, p.type), p.value)]

\* a handler that catches KeyError only
Clusters_revert_machinetag_keyerror(self, machinetag) ==
  LET r == Clusters_revert_try(self, machinetag)
  IN IF r.exc = KeyError THEN [exc |-> UnableToRevertMachinetag] ELSE r

\* except Exception: raise UnableToRevertMachinetag
Clusters_revert_machinetag(self, machinetag) ==
  LET r == Clusters_revert_try(self, machinetag)
  IN IF r.exc # NoExc THEN [exc |-> UnableToRevertMachinetag] ELSE r

\* [cluster.machinetags() for cluster in self.values()]
Clusters_all_machinetags(self) ==
  [i \in 1..Len(self) |-> Cluster_machinetags(self[i].v)]

\* a search that keeps the clusters without any match
RECURSIVE Clusters_search_from_all(_, _, _, _)
Clusters_search_from_all(self, query, return_tags, i) ==
  IF i > Len(self) THEN <<>>
  ELSE <<[cluster |-> self[i].v,
          values |-> Cluster_search(self[i].v, query, return_tags)]>>
       \o Clusters_search_from_all(self, query, return_tags, i + 1)

\* the loop of search over self.values(), from position i on
RECURSIVE Clusters_search_from(_, _, _, _)
Clusters_search_from(self, query, return_tags, i) ==
  IF i > Len(self) THEN <<>>
  ELSE LET values == Cluster_search(self[i].v, query, return_tags)
       IN (IF values = <<>>
             THEN <<>>
             ELSE <<[cluster |-> self[i].v, values |-> values]>>)
          \o Clusters_search_from(self, query, return_tags, i + 1)

Clusters_search(self, query, return_tags) ==
  Clusters_search_from(self, query, return_tags, 1)

(***************************************************************************)
(* Inputs of the registry specification.                                   *)
(***************************************************************************)
\* the strings the values of a registry are drawn from: two that differ in
\* letter case only and one that contains the quote of the machinetag format
ValueStrings == {<<"a">>, <<"A">>, <<"\"">>}

\* the types clusters are drawn from: the separators of the machinetag
\* format may occur in a type
TypeSet == {<<"t", ":">>, <<"=">>}

\* the elements of vs that owner gives to record i, in their order
RECURSIVE Owned(_, _, _)
Owned(vs, owner, i) ==
  IF vs = <<>> THEN <<>>
  ELSE (IF owner[1] = i THEN <<Head(vs)>> ELSE <<>>) \o
       Owned(Tail(vs), [k \in 1..(Len(vs) - 1) |-> owner[k + 1]], i)

\* the list of cluster records of the given types among which owner
\* distributes the values vs
LoadRecords(types, vs, owner) ==
  [i \in 1..Len(types) |->
     ClusterHeader(types[i]) @@
     ("values" :> [k \in 1..Len(Owned(vs, owner, i)) |->
                     ("value" :> Owned(vs, owner, i)[k])])]

Blah == <<"b", "l", "a", "h">>

Namespaces == {MispGalaxy, <<"x">>}

WellFormedTags ==
  {FormatTag(ns, t, v) :
     ns \in Namespaces, t \in TypeSet, v \in ValueStrings \cup {<<>>}}

\* tags the registry is asked to revert: well-formed ones, the same without
\* their closing quote, and a string without any separator
TagInputs ==
  WellFormedTags \cup {SubSeq(t, 1, Len(t) - 1) : t \in WellFormedTags} \cup {Blah}

(***************************************************************************)
(* Specification of a Clusters registry: bulk load, then queries.          *)
(***************************************************************************)
InitRegistry ==
  \E n \in 1..MaxClusters, vs \in SeqsUpTo(ValueStrings, MaxLoadValues),
     skip \in BOOLEAN :
    \E types \in [1..n -> TypeSet], owner \in [1..Len(vs) -> 1..n] :
    LET r == Clusters__init__(LoadRecords(types, vs, owner), 1, skip)
    IN /\ r.exc = NoExc
       /\ clusters = r.self
       /\ nextOid = r.oid
       /\ ret = NoRet
       /\ cluster = <<>>
       /\ ent = <<>>

RevertMachinetag(tag) ==
  /\ ret' = [op |-> "revert_machinetag", tag |-> tag,
             res |-> Clusters_revert_machinetag(clusters, tag)]
  /\ UNCHANGED <<cluster, clusters, ent, nextOid>>

\* the queries the registry is searched for: one in the other letter case
\* than a value, the quote, one that no value contains, and the empty one
RegistryQueries == {<<"A">>, <<"\"">>, <<"b">>, <<>>}

SearchAll(query, return_tags) ==
  /\ ret' = [op |-> "search", query |-> query, return_tags |-> return_tags,
             res |-> Clusters_search(clusters, query, return_tags)]
  /\ UNCHANGED <<cluster, clusters, ent, nextOid>>

AllMachinetags ==
  /\ ret' = [op |-> "all_machinetags", res |-> Clusters_all_machinetags(clusters)]
  /\ UNCHANGED <<cluster, clusters, ent, nextOid>>

NextRegistry ==
  \/ \E tag \in TagInputs : RevertMachinetag(tag)
  \/ AllMachinetags
  \/ \E query \in RegistryQueries, return_tags \in BOOLEAN :
       SearchAll(query, return_tags)

SpecRegistry == InitRegistry /\ [][NextRegistry]_vars

(***************************************************************************)
(* ClusterValue.merge and has_changed, which the test suite calls          *)
(* (tests_api.py) and the specification describes (4.3, 4.4, 9).           *)
(***************************************************************************)
\* the related list mine after the entries of theirs have been folded in:
\* an entry whose dest-uuid is in mine overwrites the type there, any other
\* entry is added
RECURSIVE MergeRelated(_, _)
MergeRelated(mine, theirs) ==
  IF theirs = <<>> THEN mine
  ELSE LET rel == Head(theirs)
           known == \E i \in 1..Len(mine) : mine[i]["dest-uuid"] = rel["dest-uuid"]
       IN MergeRelated(
            IF known
              THEN [i \in 1..Len(mine) |->
                      IF mine[i]["dest-uuid"] = rel["dest-uuid"]
                        THEN [mine[i] EXCEPT !["type"] = rel["type"]]
                        ELSE mine[i]]
              ELSE Append(mine, rel),
            Tail(theirs))

\* value and description are replaced by those of other, related is merged
ClusterValue_merge(self, other) ==
  Restrict(other, {"value", "description"}) @@
  ("related" :> MergeRelated(self["related"], other["related"])) @@
  Without(self, {"value", "description", "related"})

\* the serialized form of the entity differs from the copy of the raw record
\* taken when it was constructed
Galaxy_has_changed(self, snapshot) == Galaxy_to_dict(self) # snapshot

Cluster_has_changed(self, snapshot) == Cluster_to_dict(self) # snapshot

(***************************************************************************)
(* Inputs of the entity specification.                                     *)
(***************************************************************************)
GalaxyHeader(description) ==
  [type |-> <<"t">>, name |-> <<"n">>, icon |-> <<"i">>,
   description |-> description, version |-> <<"1">>, uuid |-> <<"u">>]

OptionalKey(key, vals) == {<<>>} \cup {(key :> v) : v \in vals}

\* galaxy records: the mandatory fields, one of which may be missing, and the
\* optional ones absent, empty or set
GalaxyRecords ==
  {Without(GalaxyHeader(<<"d">>), {"uuid"})} \cup
  {GalaxyHeader(d) @@ ns @@ kco :
     d \in {<<>>, <<"d">>},
     ns \in OptionalKey("namespace", {<<>>, <<"g">>}),
     kco \in OptionalKey("kill_chain_order", {<<>>, << <<"k">> >>})}

Rel(dest, type) == ("dest-uuid" :> dest) @@ ("type" :> type)

\* related lists of a value that is merged into, and of the one merged
MyRelated == SeqsUpTo({Rel(<<"1">>, <<"A">>), Rel(<<"2">>, <<"A">>)}, MaxRelated)

TheirRelated == SeqsUpTo({Rel(<<"2">>, <<"B">>), Rel(<<"3">>, <<"B">>)}, MaxRelated)

\* value records: without value, with an empty value, and valid ones
ValueRecords ==
  {<<>>, [uuid |-> <<"u">>], [value |-> <<>>], [value |-> <<>>, uuid |-> <<"u">>]}
  \cup {[value |-> <<"a">>, description |-> <<"d">>] @@ rel :
          rel \in OptionalKey("related", MyRelated)}

\* the records of the values that are merged into another
MergedRecords ==
  {[value |-> <<"b">>] @@ d @@ rel :
     d \in OptionalKey("description", {<<"e">>}),
     rel \in OptionalKey("related", TheirRelated)}

\* value records of the clusters that are dumped: optional fields absent,
\* empty and set
DumpValueRecords ==
  {[value |-> <<"a">>],
   [value |-> <<"A">>, description |-> <<>>],
   [value |-> <<"b">>, uuid |-> <<"u">>, description |-> <<"d">>,
    meta |-> [synonyms |-> << <<"c">> >>, external_id |-> <<"T">>],
    related |-> << Rel(<<"1">>, <<"A">>) >>],
   [value |-> <<"c">>, meta |-> [synonyms |-> <<>>]],
   [value |-> <<"d">>, meta |-> <<>>, related |-> <<>>]}

\* value records without a value and with an empty one
InvalidValueRecords == {[uuid |-> <<"u">>], [value |-> <<>>]}

\* lists of value records in which an invalid one comes first, or stands
\* between two valid ones
InvalidValueLists ==
  UNION {{<<bad>>, <<[value |-> <<"a">>], bad, [value |-> <<"b">>]>>} :
           bad \in InvalidValueRecords}

DumpClusterRecords ==
  {ClusterHeader(<<"t">>), Without(ClusterHeader(<<"t">>), {"category"})} \cup
  {ClusterHeader(<<"t">>) @@ ("values" :> vs) :
     vs \in SeqsUpTo(DumpValueRecords, MaxDumpValues) \cup InvalidValueLists}

\* the records of the galaxies a registry is loaded from: two types, the
\* namespace absent or set, and one record without uuid
RegistryGalaxyRecords ==
  {Without(GalaxyHeader(<<"d">>), {"uuid"})} \cup
  {("type" :> ty) @@ GalaxyHeader(<<"d">>) @@ ns :
     ty \in {<<"t">>, <<"u">>},
     ns \in OptionalKey("namespace", {<<"g">>})}

\* the records of the clusters a registry is loaded from: two types, no
\* value, one value with a meta, and a list with an invalid value record
RegistryClusterRecords ==
  {ClusterHeader(ty) @@ ("values" :> vs) :
     ty \in {<<"t">>, <<"u">>},
     vs \in {<<>>,
             <<[value |-> <<"a">>,
                meta |-> [synonyms |-> << <<"s">> >>, external_id |-> <<"T">>]]>>,
             <<[value |-> <<"a">>], [uuid |-> <<"u">>], [value |-> <<"b">>]>>}}

\* the lists a registry is loaded from
RecordLists(S) == SeqsUpTo(S, MaxRecords) \ {<<>>}

AssignedStrings == {<<>>, <<"d">>, <<"x">>}

(***************************************************************************)
(* Specification of one entity: a raw record, the entity constructed from  *)
(* it, then to_dict, assignments to its fields, has_changed and merge.     *)
(* ent.rec is the record as it was before construction.                    *)
(***************************************************************************)
InitEntity ==
  /\ \E kind \in {"Galaxy", "Cluster", "ClusterValue", "Galaxies", "Clusters"} :
       \E rec \in (CASE kind = "Galaxy" -> GalaxyRecords
                     [] kind = "Cluster" -> DumpClusterRecords
                     [] kind = "Galaxies" -> RecordLists(RegistryGalaxyRecords)
                     [] kind = "Clusters" -> RecordLists(RegistryClusterRecords)
                     [] OTHER -> ValueRecords) :
         ent = [kind |-> kind, rec |-> rec, state |-> "raw"]
  /\ ret = NoRet
  /\ nextOid = 1
  /\ cluster = <<>>
  /\ clusters = <<>>

\* the entity after a constructor call with outcome r
Constructed(r) ==
  IF r.exc = NoExc
    THEN [kind |-> ent.kind, rec |-> ent.rec, state |-> "built", obj |-> r.self,
          loaded |-> r.self, assigns |-> 0, merges |-> 0]
    ELSE [kind |-> ent.kind, rec |-> ent.rec, state |-> "failed"]

NewGalaxy ==
  /\ ent.state = "raw" /\ ent.kind = "Galaxy"
  /\ LET r == Galaxy__init__(ent.rec)
     IN /\ ent' = Constructed(r)
        /\ ret' = [op |-> "Galaxy", exc |-> r.exc]
  /\ UNCHANGED <<cluster, clusters, nextOid>>

NewClusterValue ==
  /\ ent.state = "raw" /\ ent.kind = "ClusterValue"
  /\ LET r == ClusterValue__init__(ent.rec, nextOid)
     IN /\ ent' = Constructed(IF r.exc = NoExc THEN [exc |-> NoExc, self |-> r.obj] ELSE r)
        /\ ret' = [op |-> "ClusterValue", exc |-> r.exc]
        /\ nextOid' = IF r.exc = NoExc THEN nextOid + 1 ELSE nextOid
  /\ UNCHANGED <<cluster, clusters>>

NewCluster(skip) ==
  /\ ent.state = "raw" /\ ent.kind = "Cluster"
  /\ LET r == Cluster__init__(ent.rec, nextOid, skip)
     IN /\ ent' = Constructed(r)
        /\ ret' = [op |-> "Cluster", skip |-> skip, exc |-> r.exc]
        /\ nextOid' = r.oid
  /\ UNCHANGED <<cluster, clusters>>

NewGalaxies ==
  /\ ent.state = "raw" /\ ent.kind = "Galaxies"
  /\ LET r == Galaxies__init__(ent.rec)
     IN /\ ent' = Constructed(r)
        /\ ret' = [op |-> "Galaxies", exc |-> r.exc]
  /\ UNCHANGED <<cluster, clusters, nextOid>>

NewClusters(skip) ==
  /\ ent.state = "raw" /\ ent.kind = "Clusters"
  /\ LET r == Clusters__init__(ent.rec, nextOid, skip)
     IN /\ ent' = Constructed(r)
        /\ ret' = [op |-> "Clusters", skip |-> skip, exc |-> r.exc]
        /\ nextOid' = r.oid
  /\ UNCHANGED <<cluster, clusters>>

\* what validate_with_schema hands to the validator
ValidateWithSchema ==
  /\ ent.state = "built" /\ ent.kind \in {"Galaxies", "Clusters"}
  /\ ret' = [op |-> "validate_with_schema",
             handed |-> IF ent.kind = "Galaxies"
                          THEN Galaxies_validate_with_schema(ent.obj)
                          ELSE Clusters_validate_with_schema(ent.obj)]
  /\ UNCHANGED <<cluster, clusters, ent, nextOid>>

Entity_to_dict(kind, obj) ==
  CASE kind = "Galaxy" -> Galaxy_to_dict(obj)
    [] kind = "Cluster" -> Cluster_to_dict(obj)
    [] OTHER -> ClusterValue_to_dict(obj)

ToDict ==
  /\ ent.state = "built" /\ ent.kind \in {"Galaxy", "Cluster", "ClusterValue"}
  /\ ret' = [op |-> "to_dict", res |-> Entity_to_dict(ent.kind, ent.obj)]
  /\ UNCHANGED <<cluster, clusters, ent, nextOid>>

\* entity.field = val, for a galaxy or a cluster
Assign(field, val) ==
  /\ ent.state = "built" /\ ent.kind \in {"Galaxy", "Cluster"}
  /\ ent.assigns < MaxAssigns
  /\ ent.kind = "Cluster" => field = "description"
  /\ ent' = [ent EXCEPT !.obj = (field :> val) @@ @, !.assigns = @ + 1]
  /\ ret' = [op |-> "assign", field |-> field, val |-> val,
             old |-> Restrict(ent.obj, {field})]
  /\ UNCHANGED <<cluster, clusters, nextOid>>

\* cluster.get(name).description = val
AssignValue(i, val) ==
  /\ ent.state = "built" /\ ent.kind = "Cluster"
  /\ ent.assigns < MaxAssigns
  /\ i \in 1..Len(ent.obj["cluster_values"])
  /\ ent' = [ent EXCEPT !.obj["cluster_values"][i].v = ("description" :> val) @@ @,
                        !.assigns = @ + 1]
  /\ ret' = [op |-> "assign", field |-> "description", val |-> val,
             old |-> Restrict(ent.obj["cluster_values"][i].v, {"description"})]
  /\ UNCHANGED <<cluster, clusters, nextOid>>

HasChanged ==
  /\ ent.state = "built" /\ ent.kind \in {"Galaxy", "Cluster"}
  /\ ret' = [op |-> "has_changed",
             res |-> IF ent.kind = "Galaxy"
                       THEN Galaxy_has_changed(ent.obj, ent.rec)
                       ELSE Cluster_has_changed(ent.obj, ent.rec)]
  /\ UNCHANGED <<cluster, clusters, ent, nextOid>>

\* self.merge(ClusterValue(rec))
Merge(rec) ==
  /\ ent.state = "built" /\ ent.kind = "ClusterValue"
  /\ ent.merges < MaxMerges
  /\ LET other == ClusterValue__init__(rec, nextOid).obj
     IN /\ ent' = [ent EXCEPT !.obj = ClusterValue_merge(@, other), !.merges = @ + 1]
        /\ ret' = [op |-> "merge", rec |-> rec, other |-> other]
  /\ nextOid' = nextOid + 1
  /\ UNCHANGED <<cluster, clusters>>

NextEntity ==
  \/ NewGalaxy
  \/ NewGalaxies
  \/ \E skip \in BOOLEAN : NewClusters(skip)
  \/ ValidateWithSchema
  \/ NewClusterValue
  \/ \E skip \in BOOLEAN : NewCluster(skip)
  \/ ToDict
  \/ \E field \in {"description", "namespace"}, val \in AssignedStrings : Assign(field, val)
  \/ \E i \in 1..MaxDumpValues, val \in AssignedStrings : AssignValue(i, val)
  \/ HasChanged
  \/ \E rec \in MergedRecords : Merge(rec)

SpecEntity == InitEntity /\ [][NextEntity]_vars

(***************************************************************************)
(* Properties                                                              *)
(***************************************************************************)
\* the step is an append of a record with a non-empty value
AppendStep == ret'.op = "append" /\ "value" \in DOMAIN ret'.v /\ ret'.v["value"] # <<>>

\* the cluster contains a value whose lower-cased form is that of name
ContainsFolded(self, name) ==
  \E i \in 1..Len(self["cluster_values"]) :
    Lower(self["cluster_values"][i].v["value"]) = Lower(name)

\* the contained value whose lower-cased form is that of name
FoldedEntry(self, name) ==
  LET i == CHOOSE j \in 1..Len(self["cluster_values"]) :
             Lower(self["cluster_values"][j].v["value"]) = Lower(name)
  IN self["cluster_values"][i].v

\* C1: an append with skip_duplicates=true of a value whose lower-cased form
\* is already contained succeeds, appends (cluster.name, value) to duplicates,
\* and a lookup of the value afterwards returns the ClusterValue that was
\* inserted first.
C1_SkipKeepsFirst ==
  [][(AppendStep /\ ret'.skip /\ ContainsFolded(cluster, ret'.v["value"]))
       => /\ ret'.exc = NoExc
          /\ cluster'["duplicates"] =
               Append(cluster["duplicates"], <<cluster["name"], ret'.v["value"]>>)
          /\ Cluster__getitem__(cluster', ret'.v["value"]) =
               FoldedEntry(cluster, ret'.v["value"])]_vars

\* C2: an append with skip_duplicates=false of a value whose lower-cased form
\* is that of a contained value fails with PyMISPGalaxiesError (duplicate
\* value), whatever the letter case; an append of a value whose lower-cased
\* form is not contained never fails with that error.
C2_DuplicateValue ==
  [][AppendStep
       => /\ (ContainsFolded(cluster, ret'.v["value"]) /\ ~ret'.skip)
               => (ret'.exc = PyMISPGalaxiesError /\ ret'.msg = MsgDuplicate)
          /\ ~ContainsFolded(cluster, ret'.v["value"])
               => ret'.exc = NoExc]_vars

\* C2 witness: an append failed as a duplicate of a contained value that
\* differs from it in letter case
C2_Witness ==
  /\ ret.op = "append"
  /\ ret.exc = PyMISPGalaxiesError
  /\ ret.msg = MsgDuplicate
  /\ ContainsFolded(cluster, ret.v["value"])
  /\ FoldedEntry(cluster, ret.v["value"])["value"] # ret.v["value"]

\* the (cluster, value) pairs held by the registry
HeldPairs ==
  {<<clusters[i].v, clusters[i].v["cluster_values"][j].v>> :
     <<i, j>> \in {<<a, b>> \in (1..Len(clusters)) \X (1..MaxLoadValues) :
                     b <= Len(clusters[a].v["cluster_values"])}}

Reverted == ret.op = "revert_machinetag"

\* C3 as stated: for every cluster c of the registry and every value v of c,
\* reverting the tag misp-galaxy:<c.type>="<v.value>" returns the pair (c, v).
C3_RevertAll ==
  Reverted =>
    \A p \in HeldPairs :
      ret.tag = MachineTag(p[1]["type"], p[2]["value"])
        => ret.res = [exc |-> NoExc, cluster |-> p[1], value |-> p[2]]

HasChar(s, c) == \E i \in 1..Len(s) : s[i] = c

\* C3 amended: the same, for the clusters whose type contains no = and the
\* values that contain no double quote.
C3_RevertUnambiguous ==
  Reverted =>
    \A p \in HeldPairs :
      (/\ ret.tag = MachineTag(p[1]["type"], p[2]["value"])
       /\ ~HasChar(p[1]["type"], "=")
       /\ ~HasChar(p[2]["value"], "\""))
        => ret.res = [exc |-> NoExc, cluster |-> p[1], value |-> p[2]]

\* C3 witness: the tag of a held pair was reverted to that pair, the type of
\* the cluster containing a colon and the value an upper-case letter
C3_Witness ==
  /\ Reverted
  /\ ret.res.exc = NoExc
  /\ \E p \in HeldPairs :
       /\ ret.tag = MachineTag(p[1]["type"], p[2]["value"])
       /\ ret.res.cluster = p[1]
       /\ ret.res.value = p[2]
       /\ HasChar(p[1]["type"], ":")
       /\ p[2]["value"] # Lower(p[2]["value"])

\* the ways of reading tag as namespace:type="value", namespace without a
\* colon, type without = and value without a double quote
GrammarParts(tag) ==
  {<<SubSeq(tag, 1, c - 1), SubSeq(tag, c + 1, e - 1), SubSeq(tag, e + 2, Len(tag) - 1)>> :
     <<c, e>> \in {<<a, b>> \in (1..Len(tag)) \X (1..Len(tag)) :
                     /\ a < b
                     /\ b + 2 <= Len(tag)
                     /\ tag[a] = ":"
                     /\ tag[b] = "="
                     /\ tag[b + 1] = "\""
                     /\ tag[Len(tag)] = "\""
                     /\ ~HasChar(SubSeq(tag, 1, a - 1), ":")
                     /\ ~HasChar(SubSeq(tag, a + 1, b - 1), "=")
                     /\ ~HasChar(SubSeq(tag, b + 2, Len(tag) - 1), "\"")}}

UnknownType(tag) ==
  \E g \in GrammarParts(tag) : \A i \in 1..Len(clusters) : clusters[i].k # g[2]

UnknownValue(tag) ==
  \E g \in GrammarParts(tag) :
    \E i \in 1..Len(clusters) :
      /\ clusters[i].k = g[2]
      /\ \A j \in 1..Len(clusters[i].v["cluster_values"]) :
           clusters[i].v["cluster_values"][j].k # Lower(g[3])

C4_WitnessBlah ==
  /\ Reverted
  /\ ret.tag = Blah
  /\ ret.res.exc = UnableToRevertMachinetag

Dumped == ent.state = "built" /\ ret.op = "to_dict" /\ ent.assigns = 0

\* a cluster record with the eight required fields and a list of value
\* records that each have a non-empty value
ValidClusterRecord(rec) ==
  /\ ClusterRequired \subseteq DOMAIN rec
  /\ "values" \in DOMAIN rec
  /\ \A i \in 1..Len(rec["values"]) :
       "value" \in DOMAIN rec["values"][i] /\ rec["values"][i]["value"] # <<>>

\* C5: to_dict of the Cluster constructed from a valid record, its values and
\* their meta serialized through their own to_dict, equals the record.
C5_ClusterRoundTrip ==
  (Dumped /\ ent.kind = "Cluster" /\ ValidClusterRecord(ent.rec))
    => ret.res = ent.rec

\* C6: to_dict of the Galaxy constructed from a record with the six mandatory
\* fields and optionally namespace and kill_chain_order equals the record as
\* it was before construction.
C6_GalaxyRoundTrip ==
  (Dumped /\ ent.kind = "Galaxy") => ret.res = ent.rec

\* C7: a ClusterValue is constructed if and only if the record has a
\* non-empty value, and the construction fails with PyMISPGalaxiesError both
\* when the value is missing and when it is empty.
C7_InvalidValue ==
  ret.op = "ClusterValue"
    => /\ ret.exc = NoExc <=> ("value" \in DOMAIN ent.rec /\ ent.rec["value"] # <<>>)
       /\ ret.exc \in {NoExc, PyMISPGalaxiesError}

\* the related list of a raw value record
RelatedOf(rec) == IF "related" \in DOMAIN rec THEN rec["related"] ELSE <<>>

Dests(rels) == {rels[i]["dest-uuid"] : i \in 1..Len(rels)}

Keyed(rels) ==
  \A i, j \in 1..Len(rels) : rels[i]["dest-uuid"] = rels[j]["dest-uuid"] => i = j

\* merged is the key-based merge of the related lists mine and theirs
KeyMerged(mine, theirs, merged) ==
  /\ \A i \in 1..Len(mine) :
       mine[i]["dest-uuid"] \notin Dests(theirs)
         => \E k \in 1..Len(merged) : merged[k] = mine[i]
  /\ \A i \in 1..Len(theirs) :
       \E k \in 1..Len(merged) : merged[k] = theirs[i]
  /\ \A k \in 1..Len(merged) :
       merged[k]["dest-uuid"] \in Dests(theirs)
         => \E i \in 1..Len(theirs) : theirs[i] = merged[k]
  /\ Keyed(merged)
  /\ Dests(merged) = Dests(mine) \cup Dests(theirs)

\* the state of the value before the step: what its record says as long as
\* nothing was merged into it
Before == IF ent.merges = 0
            THEN Restrict(ent.rec, {"value", "description"}) @@
                 ("related" :> RelatedOf(ent.rec))
            ELSE ent.obj

MergedAsClaimed ==
  /\ Restrict(ent'.obj, {"value", "description"}) =
       Restrict(ret'.rec, {"value", "description"})
  /\ KeyMerged(Before["related"], RelatedOf(ret'.rec), ent'.obj["related"])

C9_HasChanged ==
  ret.op = "has_changed" => (ret.res <=> ent.obj # ent.loaded)

\* the strings of a value that the search looks into
SearchableSet(v) ==
  {v["value"]}
  \cup (IF "uuid" \in DOMAIN v THEN {v["uuid"]} ELSE {})
  \cup (IF "meta" \in DOMAIN v /\ "synonyms" \in DOMAIN v["meta"]
          THEN {v["meta"]["synonyms"][i] : i \in 1..Len(v["meta"]["synonyms"])}
          ELSE {})

Contains(s, q) == \E i \in 1..(Len(s) + 1), j \in 0..Len(s) : SubSeq(s, i, j) = q

QueryMatches(v, q) == \E s \in SearchableSet(v) : Contains(Lower(s), Lower(q))

PositionOf(v) == CHOOSE i \in 1..Len(cluster["cluster_values"]) :
                   cluster["cluster_values"][i].v = v

\* C10: search(query, return_tags=false) returns exactly the contained values
\* one of whose searchable strings contains the query, letter case ignored,
\* each once and in the order of the index.
C10_Search ==
  (ret.op = "search" /\ ~ret.return_tags)
    => LET vals == Cluster_values(cluster)
           res == ret.res
       IN /\ \A i \in 1..Len(vals) :
               QueryMatches(vals[i], ret.query) <=> \E j \in 1..Len(res) : res[j] = vals[i]
          /\ \A j \in 1..Len(res) : \E i \in 1..Len(vals) : res[j] = vals[i]
          /\ \A j, k \in 1..Len(res) : j < k => PositionOf(res[j]) < PositionOf(res[k])

\* C10 witness: of three values a search returned two, one of them found
\* through a synonym written in another letter case
C10_Witness ==
  /\ ret.op = "search" /\ ~ret.return_tags
  /\ Len(cluster["cluster_values"]) = 3
  /\ Len(ret.res) = 2
  /\ \E j \in 1..2 :
       /\ ~Contains(Lower(ret.res[j]["value"]), Lower(ret.query))
       /\ \A s \in SearchableSet(ret.res[j]) : ~Contains(s, ret.query)

\* C11: Clusters.search returns one (cluster, matches) pair for exactly the
\* clusters whose own search result is not empty, paired with that result; a
\* cluster without a match does not appear, and the result is not empty as
\* soon as a searchable string of some value contains the query, letter case
\* ignored.
C11_ClustersSearch ==
  ret.op = "search"
    => LET res == ret.res
       IN /\ \A i \in 1..Len(clusters) :
               LET c == clusters[i].v
                   m == Cluster_search(c, ret.query, ret.return_tags)
                   hits == {j \in 1..Len(res) : res[j].cluster = c}
               IN /\ Cardinality(hits) = IF m = <<>> THEN 0 ELSE 1
                  /\ \A j \in hits : res[j].values = m
          /\ \A j \in 1..Len(res) :
               /\ res[j].values # <<>>
               /\ \E i \in 1..Len(clusters) : clusters[i].v = res[j].cluster
          /\ (\E i \in 1..Len(clusters) :
                \E k \in 1..Len(clusters[i].v["cluster_values"]) :
                  QueryMatches(clusters[i].v["cluster_values"][k].v, ret.query))
               => res # <<>>

\* C11 witness: of two clusters a search returned one, whose value is
\* written in another letter case than the query
C11_Witness ==
  /\ ret.op = "search" /\ ~ret.return_tags
  /\ Len(clusters) = 2
  /\ Len(ret.res) = 1
  /\ Len(ret.res[1].values) = 1
  /\ ret.res[1].values[1]["value"] # ret.query
  /\ ret.query # <<>>

\* the tag of the grammar namespace:type="value" for a value of cluster c
GrammarTag(c, v) ==
  <<"m", "i", "s", "p", "-", "g", "a", "l", "a", "x", "y", ":">> \o c["type"]
  \o <<"=", "\"">> \o v["value"] \o <<"\"">>

\* the positions of the index of c whose value the query finds
MatchingPositions(c, q) ==
  {k \in 1..Len(c["cluster_values"]) : QueryMatches(c["cluster_values"][k].v, q)}

\* the n-th smallest element of the set of numbers S
Nth(S, n) == CHOOSE k \in S : Cardinality({x \in S : x < k}) = n - 1

\* C12: machinetags() returns one tag per contained value, in index order,
\* each exactly misp-galaxy:<type>="<value>" with nothing escaped; and the
\* tags search(query, return_tags=true) returns are the tags machinetags()
\* emits for the matching values.
C12_Machinetags ==
  /\ ret.op = "all_machinetags"
       => /\ Len(ret.res) = Len(clusters)
          /\ \A i \in 1..Len(clusters) :
               LET c == clusters[i].v
               IN /\ Len(ret.res[i]) = Len(c["cluster_values"])
                  /\ \A k \in 1..Len(c["cluster_values"]) :
                       ret.res[i][k] = GrammarTag(c, c["cluster_values"][k].v)
  /\ (ret.op = "search" /\ ret.return_tags)
       => \A j \in 1..Len(ret.res) :
            LET c == ret.res[j].cluster
                pos == MatchingPositions(c, ret.query)
                tags == ret.res[j].values
            IN /\ Len(tags) = Cardinality(pos)
               /\ \A n \in 1..Len(tags) :
                    tags[n] = Cluster_machinetags(c)[Nth(pos, n)]

\* C12 witness: the tags of a cluster whose type holds the separator = and
\* one of whose two values holds the quote
C12_Witness ==
  /\ ret.op = "all_machinetags"
  /\ \E i \in 1..Len(clusters) :
       /\ HasChar(clusters[i].k, "=")
       /\ Len(ret.res[i]) = 2
       /\ \E k \in 1..2 : HasChar(clusters[i].v["cluster_values"][k].v["value"], "\"")

\* C12 witness of the search: of the two values of a cluster the tag of the
\* second one only is returned
C12_WitnessSearch ==
  /\ ret.op = "search" /\ ret.return_tags
  /\ \E j \in 1..Len(ret.res) :
       /\ Len(ret.res[j].cluster["cluster_values"]) = 2
       /\ ret.res[j].values = <<Cluster_machinetags(ret.res[j].cluster)[2]>>

\* the value has a meta whose additional properties give it the external id
HasExternalId(v, id) ==
  /\ "meta" \in DOMAIN v
  /\ "external_id" \in DOMAIN v["meta"]["additional_properties"]
  /\ v["meta"]["additional_properties"]["external_id"] = id

\* C13: get_by_external_id(id) returns the first value, in index order,
\* whose meta additional properties hold external_id = id, which is the
\* object a lookup by its name returns; it fails with KeyError when no
\* contained value has that external id, values without meta included.
C13_GetByExternalId ==
  ret.op = "get_by_external_id"
    => LET vals == Cluster_values(cluster)
           id == ret.external_id
       IN IF \E i \in 1..Len(vals) : HasExternalId(vals[i], id)
            THEN /\ ret.res.exc = NoExc
                 /\ \E i \in 1..Len(vals) :
                      /\ HasExternalId(vals[i], id)
                      /\ \A j \in 1..(i - 1) : ~HasExternalId(vals[j], id)
                      /\ ret.res.value = vals[i]
                 /\ ret.res.value = Cluster__getitem__(cluster, ret.res.value["value"])
            ELSE ret.res.exc = KeyError

\* C13 witness: two values have the external id and the first one is
\* returned
C13_Witness ==
  /\ ret.op = "get_by_external_id"
  /\ Len(cluster["cluster_values"]) = 2
  /\ \A i \in 1..2 : HasExternalId(cluster["cluster_values"][i].v, ret.external_id)
  /\ ret.res.exc = NoExc
  /\ ret.res.value["oid"] = cluster["cluster_values"][1].v["oid"]

\* C13 witness of the failure: no value of the cluster has a meta
C13_WitnessNotFound ==
  /\ ret.op = "get_by_external_id"
  /\ Len(cluster["cluster_values"]) = 1
  /\ "meta" \notin DOMAIN cluster["cluster_values"][1].v
  /\ ret.res.exc = KeyError

\* the kill_chain entries of the values of the cluster
KillChainEntries ==
  UNION {{v["meta"]["additional_properties"]["kill_chain"][i] :
            i \in 1..Len(v["meta"]["additional_properties"]["kill_chain"])} :
         v \in {w \in {cluster["cluster_values"][k].v :
                          k \in 1..Len(cluster["cluster_values"])} :
                  /\ "meta" \in DOMAIN w
                  /\ "kill_chain" \in DOMAIN w["meta"]["additional_properties"]}}

\* the entry is phase:tactic
IsPhaseTactic(e, phase, tactic) == e = phase \o <<":">> \o tactic

Prefixes(e) == {SubSeq(e, 1, i) : i \in 0..Len(e)}

Suffixes(e) == {SubSeq(e, i, Len(e)) : i \in 1..(Len(e) + 1)}

\* the tactics that occur with the phase in some entry
TacticsOf(phase) ==
  {t \in UNION {Suffixes(e) : e \in KillChainEntries} :
     \E e \in KillChainEntries : IsPhaseTactic(e, phase, t)}

\* the phases that occur in some entry
Phases ==
  {p \in UNION {Prefixes(e) : e \in KillChainEntries} :
     \E e \in KillChainEntries : \E t \in Suffixes(e) : IsPhaseTactic(e, p, t)}

\* every entry has one colon, between its phase and its tactic
EntriesWellFormed ==
  \A e \in KillChainEntries : Cardinality({i \in 1..Len(e) : e[i] = ":"}) = 1

\* C14: for kill_chain entries of the form phase:tactic,
\* get_kill_chain_tactics() returns a mapping whose keys are exactly the
\* phases that occur in an entry of some value and whose value for a phase
\* is the list of the tactics that occur with it, ascending and each once.
C14_KillChainTactics ==
  (ret.op = "get_kill_chain_tactics" /\ EntriesWellFormed)
    => /\ ret.res.exc = NoExc
       /\ DOMAIN ret.res.result = Phases
       /\ \A p \in Phases :
            LET l == ret.res.result[p]
            IN /\ {l[i] : i \in 1..Len(l)} = TacticsOf(p)
               /\ \A i, j \in 1..Len(l) : i < j => StrLess(l[i], l[j])

\* C14 witness: two phases, one of them with three tactics, one of which
\* two values have
C14_Witness ==
  /\ ret.op = "get_kill_chain_tactics"
  /\ ret.res.exc = NoExc
  /\ Cardinality(DOMAIN ret.res.result) = 2
  /\ \E p \in DOMAIN ret.res.result : Len(ret.res.result[p]) = 3
  /\ \A k \in 1..2 :
       \E i \in 1..Len(cluster["cluster_values"][k].v["meta"]["additional_properties"]["kill_chain"]) :
         cluster["cluster_values"][k].v["meta"]["additional_properties"]["kill_chain"][i]
           = <<"p", ":", "x">>

\* the cluster record lists a value record without value or with an empty one
HasInvalidValue(rec) ==
  /\ "values" \in DOMAIN rec
  /\ \E i \in 1..Len(rec["values"]) :
       "value" \notin DOMAIN rec["values"][i] \/ rec["values"][i]["value"] = <<>>

\* C15: the construction of a Cluster, and of a Clusters registry, from
\* records one of whose value records is invalid (value missing or empty)
\* fails with an error, with skip_duplicates false and true.
C15_FailFast ==
  /\ (ret.op = "Cluster" /\ HasInvalidValue(ent.rec)) => ret.exc # NoExc
  /\ (ret.op = "Clusters" /\ \E j \in 1..Len(ent.rec) : HasInvalidValue(ent.rec[j]))
       => ret.exc # NoExc

\* the types of the records of a list
TypesOf(records) == {records[j]["type"] : j \in 1..Len(records)}

\* the last record of the list that has the type
LastOfType(records, ty) ==
  records[CHOOSE j \in 1..Len(records) :
            /\ records[j]["type"] = ty
            /\ \A k \in (j + 1)..Len(records) : records[k]["type"] # ty]

\* the registry has one key per type of the records, each once
KeyedByType(registry, records) ==
  /\ DictKeys(registry) = TypesOf(records)
  /\ Len(registry) = Cardinality(TypesOf(records))
  /\ \A i \in 1..Len(registry) : registry[i].v["type"] = registry[i].k

C16_WitnessGalaxies ==
  /\ ret.op = "Galaxies" /\ ret.exc = NoExc
  /\ Len(ent.rec) = 2
  /\ ent.rec[1]["type"] = ent.rec[2]["type"]
  /\ "namespace" \notin DOMAIN ent.rec[1]
  /\ Len(ent.obj) = 1
  /\ "namespace" \in DOMAIN ent.obj[1].v

\* C17: validate_with_schema hands to the validator, for each entity of
\* the registry, the record it was constructed from exactly as it was
\* supplied: the construction has removed no key from it.
C17_ValidateRaw ==
  ret.op = "validate_with_schema"
    => /\ Len(ret.handed) = Len(ent.obj)
       /\ \A i \in 1..Len(ent.obj) :
            ret.handed[i] = LastOfType(ent.rec, ent.obj[i].k)

\* the record has neither a namespace nor a kill_chain_order, and none of
\* its values has a meta
NothingToPop(rec) ==
  /\ DOMAIN rec \cap GalaxyOptional = {}
  /\ "values" \in DOMAIN rec
       => \A i \in 1..Len(rec["values"]) : "meta" \notin DOMAIN rec["values"][i]

\* the records without anything the constructors pop are handed over as
\* they were supplied
ValidateRawWithoutPopped ==
  (ret.op = "validate_with_schema"
     /\ \A j \in 1..Len(ent.rec) : NothingToPop(ent.rec[j]))
    => /\ Len(ret.handed) = Len(ent.obj)
       /\ \A i \in 1..Len(ent.obj) :
            ret.handed[i] = LastOfType(ent.rec, ent.obj[i].k)

\* C18: after the construction and after any sequence of append calls,
\* successful or failing, every key of the index of the cluster is the
\* lower-cased value of the ClusterValue stored under it, and no two keys
\* are equal when letter case is ignored.
C18_IndexKeys ==
  LET index == cluster["cluster_values"]
  IN /\ \A i \in 1..Len(index) : index[i].k = Lower(index[i].v["value"])
     /\ \A i, j \in 1..Len(index) : Lower(index[i].k) = Lower(index[j].k) => i = j

\* C18 witness: an upper-case value has been appended over the entry of its
\* lower-case spelling, the duplicate being skipped, and the next append of
\* the value has failed
C18_Witness ==
  /\ ret.op = "append" /\ ret.exc = PyMISPGalaxiesError /\ ret.msg = MsgDuplicate
  /\ cluster["duplicates"] # <<>>
  /\ \E i \in 1..Len(cluster["cluster_values"]) :
       /\ cluster["cluster_values"][i].k = <<"a">>
       /\ cluster["cluster_values"][i].v["value"] = <<"A">>

\* C19: when append fails with the duplicate-value error, the index of the
\* cluster (keys, stored objects, order) and its list of duplicates are what
\* they were before the call.
C19_FailedAppendFrame ==
  [][(ret'.op = "append" /\ ret'.exc = PyMISPGalaxiesError /\ ret'.msg = MsgDuplicate)
       => /\ cluster'["cluster_values"] = cluster["cluster_values"]
          /\ cluster'["duplicates"] = cluster["duplicates"]]_vars

\* C19 witness: an append without skip_duplicates has failed on a cluster
\* of two values, for a value spelled in another letter case than the one
\* the index holds
C19_Witness ==
  /\ ret.op = "append" /\ ~ret.skip
  /\ ret.exc = PyMISPGalaxiesError /\ ret.msg = MsgDuplicate
  /\ Len(cluster["cluster_values"]) = 2
  /\ Cluster__getitem__(cluster, ret.v["value"])["value"] # ret.v["value"]

\* C20: two well-formed machinetags that differ in the namespace segment
\* only are either both not reverted or reverted to the same (Cluster,
\* ClusterValue) pair; a tag with another namespace than misp-galaxy is
\* reverted when its type and value exist.
C20_NamespaceIgnored ==
  Reverted
    => \A g \in GrammarParts(ret.tag) :
         \A ns \in Namespaces :
           Clusters_revert_machinetag(clusters, FormatTag(ns, g[2], g[3])) = ret.res

\* C20 witness: a tag whose namespace is not misp-galaxy has been reverted
C20_Witness ==
  /\ Reverted
  /\ ret.res.exc = NoExc
  /\ \E g \in GrammarParts(ret.tag) : g[1] # MispGalaxy

====
